---- MODULE Spec2Model ----
(***************************************************************************)
(* A model of piped (lib/piped.js): a relay that accepts inbound TCP,      *)
(* unix-socket and UDP traffic and forwards it to the first available of   *)
(* an ordered set of remote servers, with a periodic reconnect job.        *)
(*                                                                         *)
(* JavaScript objects are modelled as records.  The health fields of a     *)
(* remote (is_available, state_changed, state_changes, last_sent) are      *)
(* written by closures over `obj`, which _RemoteConnect binds to the       *)
(* object it constructs.  _RemoteConnect is only ever run to build the two *)
(* prototype objects (RemoteUDPConnect.prototype and                       *)
(* RemoteStreamConnect.prototype), so those fields live on the prototype   *)
(* of each kind; instances own name, is_stream, connection and send.       *)
(***************************************************************************)
EXTENDS Integers, Sequences, FiniteSets, TLC

\* ---------------------------------------------------------------- bounds
NumServers == 2
MaxSockets == 4
MaxConns   == 1
MaxChunks  == 2
MaxChanges == 3
MaxNow     == 2
MaxTotal   == 2
MaxCmds    == 2
MaxAdmin   == 3

Names   == 1..NumServers
Sockets == 1..MaxSockets
ConnIds == 1..MaxConns
Kinds   == {"stream", "udp"}

\* the chunks an inbound connection may deliver, as sequences of bytes
Chunks  == {<<"x">>, <<"y", "\n">>}

\* the values of Config.encoding
Encodings == {"ascii", "binary"}

\* the value `false` that _available_server returns when nothing is usable
NoServer == 0

VARIABLES
    Config,      \* Config.servers: the kind of each configured server, in order
    State,       \* State.servers: name -> remote object (own properties)
    prototype,   \* kind -> the prototype object holding the health fields
    sockets,     \* socket id -> state of the connection handle and its peer
    reachable,   \* name -> whether the remote endpoint accepts connections
    conns,       \* inbound stream connections accepted by LocalStreamListen
    Stats,       \* Stats.connections
    now,         \* the clock read by _now()
    io,          \* the calls the last handler made on a remote or its socket
    crashed,     \* an exception escaped an event handler: the process is gone
    admin        \* the connection accepted by the admin server, and its commands

vars == <<Config, State, prototype, sockets, reachable, conns, Stats, now, io, crashed,
          admin>>

\* ------------------------------------------------------------ _RemoteConnect

\* the prototype object as _RemoteConnect builds it at time t
_RemoteConnect(t) ==
    [is_available |-> FALSE, state_changed |-> t, state_changes |-> 0, last_sent |-> 0]

\* a mark_available that does nothing for an object that is available already
mark_available_Dedup(pr, k, t) ==
    IF pr[k].is_available
    THEN pr
    ELSE [pr EXCEPT ![k] = [@ EXCEPT !.is_available  = TRUE,
                                     !.state_changed = t,
                                     !.state_changes = @ + 1]]

\* obj.mark_available(): obj is the prototype of kind k
mark_available(pr, k, t) ==
    [pr EXCEPT ![k] = [@ EXCEPT !.is_available  = TRUE,
                                !.state_changed = t,
                                !.state_changes = @ + 1]]

\* a mark_unavailable that leaves the counter of state changes alone
mark_unavailable_NoCount(pr, k, t) ==
    [pr EXCEPT ![k] = [@ EXCEPT !.is_available  = FALSE,
                                !.state_changed = t]]

\* obj.mark_unavailable(): obj is the prototype of kind k
mark_unavailable(pr, k, t) ==
    [pr EXCEPT ![k] = [@ EXCEPT !.is_available  = FALSE,
                                !.state_changed = t,
                                !.state_changes = @ + 1]]

\* remote.incr_stats( remote )
remote_incr_stats(pr, k, t) ==
    [pr EXCEPT ![k] = [@ EXCEPT !.last_sent = t]]

\* which prototype an instance inherits from
KindOf(remote) == IF remote.is_stream THEN "stream" ELSE "udp"

\* property lookups on a remote that fall through to its prototype
is_available(pr, remote)  == pr[KindOf(remote)].is_available
state_changes(pr, remote) == pr[KindOf(remote)].state_changes
last_sent(pr, remote)     == pr[KindOf(remote)].last_sent

\* remote.connection.destroyed: a dgram socket has no such property
destroyed(sk, remote) == sk[remote.connection].state = "destroyed"

\* ------------------------------------------------------- remote constructors

Unused(sk) == {h \in Sockets : sk[h].state = "unused"}

FreshSocket(sk) == CHOOSE h \in Unused(sk) : \A g \in Unused(sk) : h <= g

\* RemoteStreamConnect as it would be if each instance ran _RemoteConnect
\* for itself: the health fields start afresh with every new object
RemoteStreamConnect_FreshFields(name, pr, sk, t) ==
    LET h == FreshSocket(sk) IN
    [remote    |-> [name |-> name, is_stream |-> TRUE, connection |-> h, last_send |-> 0],
     prototype |-> [pr EXCEPT !["stream"] = _RemoteConnect(t)],
     sockets   |-> [sk EXCEPT ![h] = [state |-> "connecting", peer |-> name]]]

\* new RemoteStreamConnect( name, host, port )
RemoteStreamConnect(name, pr, sk, t) ==
    LET h == FreshSocket(sk) IN
    [remote    |-> [name |-> name, is_stream |-> TRUE, connection |-> h, last_send |-> 0],
     prototype |-> pr,
     sockets   |-> [sk EXCEPT ![h] = [state |-> "connecting", peer |-> name]]]

\* new RemoteUDPConnect( name, host, port )
RemoteUDPConnect(name, pr, sk, t) ==
    LET h == FreshSocket(sk) IN
    [remote    |-> [name |-> name, is_stream |-> FALSE, connection |-> h, last_send |-> 0],
     prototype |-> mark_available(pr, "udp", t),
     sockets   |-> [sk EXCEPT ![h] = [state |-> "dgram", peer |-> name]]]

\* _connect_to_server( str, reconnect ): the kind comes from the form of str
_connect_to_server(cfg, name, pr, sk, t) ==
    IF cfg.servers[name] = "stream"
    THEN RemoteStreamConnect(name, pr, sk, t)
    ELSE RemoteUDPConnect(name, pr, sk, t)

\* the initial connect loop over Config.servers
RECURSIVE InitialConnect(_, _, _, _, _, _)
InitialConnect(cfg, i, srv, pr, sk, t) ==
    IF i > NumServers
    THEN [servers |-> srv, prototype |-> pr, sockets |-> sk]
    ELSE LET r == _connect_to_server(cfg, i, pr, sk, t) IN
         InitialConnect(cfg, i + 1, [srv EXCEPT ![i] = r.remote],
                        r.prototype, r.sockets, t)

\* -------------------------------------------------------- _available_server

\* the scan of _available_server from position i on; the result carries the
\* prototypes as the scan leaves them
RECURSIVE Scan(_, _, _, _, _)
Scan(i, srv, pr, sk, t) ==
    IF i > NumServers
    THEN [remote |-> NoServer, prototype |-> pr]
    ELSE IF is_available(pr, srv[i]) = FALSE
         THEN Scan(i + 1, srv, pr, sk, t)
         ELSE IF destroyed(sk, srv[i])
              THEN Scan(i + 1, srv, mark_unavailable(pr, KindOf(srv[i]), t), sk, t)
              ELSE [remote |-> i, prototype |-> pr]

_available_server(srv, pr, sk, t) == Scan(1, srv, pr, sk, t)

\* ------------------------------------------------------------------ Init

NoRemote == [name |-> 0, is_stream |-> FALSE, connection |-> 0, last_send |-> 0]
NoSocket == [state |-> "unused", peer |-> 0]
NoConn   == [open |-> FALSE, type |-> "none", remote |-> 0, socket |-> 0,
             mode |-> "none", chunks |-> 0]

NoAdmin  == [open |-> FALSE, server |-> "none", cmds |-> <<>>]

Init ==
    /\ Config \in [servers : [Names -> Kinds], encoding : Encodings]
    /\ reachable \in [Names -> BOOLEAN]
    /\ now = 1
    /\ LET r == InitialConnect(Config, 1, [n \in Names |-> NoRemote],
                               [k \in Kinds |-> _RemoteConnect(1)],
                               [h \in Sockets |-> NoSocket], 1)
       IN  /\ State = [servers |-> r.servers]
           /\ prototype = r.prototype
           /\ sockets = r.sockets
    /\ conns = [c \in ConnIds |-> NoConn]
    /\ Stats = [connections |-> [admin |-> 0, tcp |-> 0, udp |-> 0, socket |-> 0,
                                 unix |-> "undefined", total |-> 0, last |-> 0,
                                 idle |-> 0],
                start_time |-> 1, uptime |-> 0]
    /\ admin = NoAdmin
    /\ io = <<>>
    /\ crashed = FALSE

\* ------------------------------------------------------------- socket events

\* the 'connect' event of a stream socket
\* a 'connect' that is held back while the attempt to a server earlier in the
\* list is still pending
OnConnect_AfterEarlier(h) ==
    /\ ~crashed
    /\ \A g \in Sockets : sockets[g].state = "connecting" => sockets[g].peer >= sockets[h].peer
    /\ sockets[h].state = "connecting"
    /\ reachable[sockets[h].peer]
    /\ prototype["stream"].state_changes < MaxChanges
    /\ sockets' = [sockets EXCEPT ![h].state = "connected"]
    /\ prototype' = mark_available(prototype, "stream", now)
    /\ io' = <<>>
    /\ UNCHANGED <<admin, Config, State, reachable, conns, Stats, now, crashed>>

OnConnect(h) ==
    /\ ~crashed
    /\ sockets[h].state = "connecting"
    /\ reachable[sockets[h].peer]
    /\ prototype["stream"].state_changes < MaxChanges
    /\ sockets' = [sockets EXCEPT ![h].state = "connected"]
    /\ prototype' = mark_available(prototype, "stream", now)
    /\ io' = <<>>
    /\ UNCHANGED <<admin, Config, State, reachable, conns, Stats, now, crashed>>

\* the 'error' event of a stream socket: a refused connect, or a failure of
\* an established connection; the socket is destroyed
OnError(h) ==
    /\ ~crashed
    /\ \/ sockets[h].state = "connecting" /\ ~reachable[sockets[h].peer]
       \/ sockets[h].state = "connected"
    /\ prototype["stream"].state_changes < MaxChanges
    /\ sockets' = [sockets EXCEPT ![h].state = "destroyed"]
    /\ prototype' = mark_unavailable(prototype, "stream", now)
    /\ io' = <<>>
    /\ UNCHANGED <<admin, Config, State, reachable, conns, Stats, now, crashed>>

\* the remote end closes an established connection: no 'error' is emitted,
\* the socket ends up destroyed
RemoteClose(h) ==
    /\ ~crashed
    /\ sockets[h].state = "connected"
    /\ sockets' = [sockets EXCEPT ![h].state = "destroyed"]
    /\ io' = <<>>
    /\ UNCHANGED <<admin, Config, State, prototype, reachable, conns, Stats, now, crashed>>

\* the environment: an endpoint starts or stops accepting connections
SetReachable(n) ==
    /\ ~crashed
    /\ reachable' = [reachable EXCEPT ![n] = ~@]
    /\ io' = <<>>
    /\ UNCHANGED <<admin, Config, State, prototype, sockets, conns, Stats, now, crashed>>

\* the environment: time passes
AdvanceClock ==
    /\ ~crashed
    /\ now < MaxNow
    /\ now' = now + 1
    /\ io' = <<>>
    /\ UNCHANGED <<admin, Config, State, prototype, sockets, reachable, conns, Stats, crashed>>

\* ------------------------------------------------------- reconnect interval

\* a reconnect job that stores every new remote in the first slot
RECURSIVE ReconnectScan_Misplaced(_, _, _, _, _, _)
ReconnectScan_Misplaced(cfg, i, srv, pr, sk, t) ==
    IF i > NumServers
    THEN [servers |-> srv, prototype |-> pr, sockets |-> sk]
    ELSE IF is_available(pr, srv[i]) = FALSE
         THEN LET r == _connect_to_server(cfg, srv[i].name, pr, sk, t) IN
              ReconnectScan_Misplaced(cfg, i + 1, [srv EXCEPT ![1] = r.remote],
                                      r.prototype, r.sockets, t)
         ELSE ReconnectScan_Misplaced(cfg, i + 1, srv, pr, sk, t)

\* the setInterval callback as it would be if it left the loop after the
\* first reconnect
RECURSIVE ReconnectScan_FirstOnly(_, _, _, _, _, _)
ReconnectScan_FirstOnly(cfg, i, srv, pr, sk, t) ==
    IF i > NumServers
    THEN [servers |-> srv, prototype |-> pr, sockets |-> sk]
    ELSE IF is_available(pr, srv[i]) = FALSE
         THEN LET r == _connect_to_server(cfg, srv[i].name, pr, sk, t) IN
              [servers |-> [srv EXCEPT ![i] = r.remote],
               prototype |-> r.prototype, sockets |-> r.sockets]
         ELSE ReconnectScan_FirstOnly(cfg, i + 1, srv, pr, sk, t)

\* the body of the setInterval callback from position i on
RECURSIVE ReconnectScan(_, _, _, _, _, _)
ReconnectScan(cfg, i, srv, pr, sk, t) ==
    IF i > NumServers
    THEN [servers |-> srv, prototype |-> pr, sockets |-> sk]
    ELSE IF is_available(pr, srv[i]) = FALSE
         THEN LET r == _connect_to_server(cfg, srv[i].name, pr, sk, t) IN
              ReconnectScan(cfg, i + 1, [srv EXCEPT ![i] = r.remote],
                            r.prototype, r.sockets, t)
         ELSE ReconnectScan(cfg, i + 1, srv, pr, sk, t)

Unavailable == {n \in Names : is_available(prototype, State.servers[n]) = FALSE}

\* one firing of the reconnect interval
Reconnect ==
    /\ ~crashed
    /\ Cardinality(Unused(sockets)) >= Cardinality(Unavailable)
    /\ LET r == ReconnectScan(Config, 1, State.servers, prototype, sockets, now) IN
       /\ State' = [State EXCEPT !.servers = r.servers]
       /\ prototype' = r.prototype
       /\ sockets' = r.sockets
    /\ io' = <<>>
    /\ UNCHANGED <<admin, Config, reachable, conns, Stats, now, crashed>>

\* ----------------------------------------------------------------- listeners

\* _LocalListen.incr_stats( obj ): Stats.connections has no 'unix' entry, so
\* the increment for the unix listener stores NaN under that key
local_incr_stats(st, type, t) ==
    [st EXCEPT !.connections =
        [@ EXCEPT !.tcp   = IF type = "tcp" THEN @ + 1 ELSE @,
                  !.udp   = IF type = "udp" THEN @ + 1 ELSE @,
                  !.unix  = IF type = "unix" THEN "NaN" ELSE @,
                  !.total = @ + 1,
                  !.last  = t]]

\* the 'connection' handler as it would be if it piped to every remote
BridgeMode_AlwaysPipe(remote) == "pipe"

\* the branch on remote.is_stream in the 'connection' handler
BridgeMode(remote) == IF remote.is_stream THEN "pipe" ELSE "manual"

FreeConn == CHOOSE c \in ConnIds : ~conns[c].open /\ \A d \in ConnIds : ~conns[d].open => c <= d

\* the 'connection' handler of LocalStreamListen (type is 'tcp' or 'unix')
StreamConnection(type) ==
    /\ ~crashed
    /\ \E c \in ConnIds : ~conns[c].open
    /\ Stats.connections.total < MaxTotal
    /\ LET s  == _available_server(State.servers, prototype, sockets, now)
           st == local_incr_stats(Stats, type, now)
       IN  /\ s.prototype["stream"].state_changes <= MaxChanges
           /\ Stats' = st
           /\ IF s.remote = NoServer
              THEN \* false.incr_stats is not a function: the TypeError
                   \* escapes the handler
                   /\ prototype' = s.prototype
                   /\ crashed' = TRUE
                   /\ UNCHANGED conns
              ELSE LET remote == State.servers[s.remote] IN
                   /\ prototype' = remote_incr_stats(s.prototype, KindOf(remote), now)
                   /\ conns' = [conns EXCEPT ![FreeConn] =
                                   [open |-> TRUE, type |-> type,
                                    remote |-> remote.name,
                                    socket |-> remote.connection,
                                    mode |-> BridgeMode(remote),
                                    chunks |-> 0]]
                   /\ UNCHANGED crashed
    /\ io' = <<>>
    /\ UNCHANGED <<admin, Config, State, sockets, reachable, now>>

\* remote.send( data ) of a UDP remote: one datagram on its socket, which
\* carries the first len bytes of the buffer; len is one less than the
\* length of the buffer when Config.encoding is 'ascii'
udp_send(remote, data, encoding) ==
    LET len == IF encoding = "ascii" THEN Len(data) - 1 ELSE Len(data)
    IN  <<[call |-> "send", on |-> remote.name, socket |-> remote.connection,
           bytes |-> SubSeq(data, 1, len)]>>

\* a pipe that would hand every chunk to the socket twice
pipe_write_Twice(sk, h, data) ==
    IF sk[h].state = "destroyed"
    THEN <<>>
    ELSE <<[call |-> "write", on |-> sk[h].peer, socket |-> h, data |-> data],
           [call |-> "write", on |-> sk[h].peer, socket |-> h, data |-> data]>>

\* conn.pipe( remote.connection, { end: false } ) moving one chunk; nothing
\* is written to a socket that is no longer writable
pipe_write(sk, h, data) ==
    IF sk[h].state = "destroyed"
    THEN <<>>
    ELSE <<[call |-> "write", on |-> sk[h].peer, socket |-> h, data |-> data]>>

\* a pipe set up without end: false: the end of the inbound connection ends
\* the remote's socket too
pipe_end_EndsSocket(sk, h) ==
    [sk EXCEPT ![h].state = IF @ = "connected" THEN "destroyed" ELSE @]

\* the end of the inbound side of conn.pipe( remote.connection,
\* { end: false } ): the destination is left as it is
pipe_end(sk, h) == sk

\* a chunk arrives on an accepted stream connection: either the pipe writes
\* it to the remote's socket, or the 'data' handler calls remote.send and
\* sets remote.last_send
DataEvent(c, data) ==
    /\ ~crashed
    /\ conns[c].open
    /\ conns[c].chunks < MaxChunks
    /\ conns' = [conns EXCEPT ![c].chunks = @ + 1]
    /\ IF conns[c].mode = "pipe"
       THEN /\ io' = pipe_write(sockets, conns[c].socket, data)
            /\ UNCHANGED State
       ELSE /\ io' = udp_send(State.servers[conns[c].remote], data, Config.encoding)
            /\ State' = [State EXCEPT !.servers[conns[c].remote].last_send = now]
    /\ UNCHANGED <<admin, Config, prototype, sockets, reachable, Stats, now, crashed>>

StreamData(c) == \E data \in Chunks : DataEvent(c, data)

\* the inbound connection ends (EOF or error); the pipe was set up with
\* end: false
StreamClose(c) ==
    /\ ~crashed
    /\ conns[c].open
    /\ conns' = [conns EXCEPT ![c] = NoConn]
    /\ sockets' = IF conns[c].mode = "pipe"
                  THEN pipe_end(sockets, conns[c].socket)
                  ELSE sockets
    /\ io' = <<>>
    /\ UNCHANGED <<admin, Config, State, prototype, reachable, Stats, now, crashed>>

\* the 'message' handler of LocalUDPListen: `remote` is not defined in its
\* scope, so the ReferenceError escapes the handler after the listener's
\* own bookkeeping
UDPMessage ==
    /\ ~crashed
    /\ Stats.connections.total < MaxTotal
    /\ Stats' = local_incr_stats(Stats, "udp", now)
    /\ crashed' = TRUE
    /\ io' = <<>>
    /\ UNCHANGED <<admin, Config, State, prototype, sockets, reachable, conns, now>>

Next ==
    \/ \E h \in Sockets : OnConnect(h)
    \/ \E h \in Sockets : OnError(h)
    \/ \E h \in Sockets : RemoteClose(h)
    \/ \E n \in Names : SetReachable(n)
    \/ AdvanceClock
    \/ Reconnect
    \/ \E type \in {"tcp", "unix"} : StreamConnection(type)
    \/ \E c \in ConnIds : StreamData(c)
    \/ \E c \in ConnIds : StreamClose(c)
    \/ UDPMessage

Spec == Init /\ [][Next]_vars

\* a connect attempt to an endpoint that does not accept connections fails
ConnectRefused(h) == OnError(h) /\ sockets[h].state = "connecting"

\* the event loop: the interval timer keeps firing while the process lives,
\* and a pending connect attempt resolves (it succeeds at a reachable
\* endpoint, it is refused at an unreachable one)
LiveSpec ==
    /\ Init /\ [][Next]_vars
    /\ WF_vars(Reconnect)
    /\ \A h \in Sockets : WF_vars(OnConnect(h)) /\ WF_vars(ConnectRefused(h))

\* ------------------------------------------------------------- admin server
\* Two admin servers are in the repository: the one lib/piped.js sets up
\* ("piped") and the AdminServer of lib/admin_server.js ("lib").  What their
\* handlers write (Stats.uptime, Stats.connections.idle and .admin, the admin
\* connection) is read by no handler of the relay, so the admin handlers are
\* checked in a specification of their own, next to the inbound units and
\* the clock that feed the figures they report.

AdminServers == {"piped", "lib"}

\* the lines an admin client may send, as sequences of characters or words
Lines ==
    {<<"ping", "\n">>, <<" ", "foo", "\r", "\n">>, <<"stats", "\n">>, <<"config", "\n">>,
     <<"dump", "\n">>, <<"__dump", "\n">>, <<"logrotate">>}

Whitespace == {" ", "\t", "\r", "\n"}

RECURSIVE trimLeft(_)
trimLeft(str) ==
    IF str # <<>> /\ Head(str) \in Whitespace THEN trimLeft(Tail(str)) ELSE str

RECURSIVE trimRight(_)
trimRight(str) ==
    IF str # <<>> /\ str[Len(str)] \in Whitespace
    THEN trimRight(SubSeq(str, 1, Len(str) - 1))
    ELSE str

\* String.prototype.trim
trim(str) == trimRight(trimLeft(str))

\* the stats function of a remote
stats(pr, remote, st, t) ==
    [available     |-> is_available(pr, remote),
     last_sent     |-> last_sent(pr, remote),
     state_changes |-> state_changes(pr, remote),
     state_changed |-> t - pr[KindOf(remote)].state_changed,
     idle          |-> IF last_sent(pr, remote) # 0
                       THEN t - last_sent(pr, remote)
                       ELSE st.uptime]

\* JSON.stringify of { stats: Stats, servers: map }: a property that is
\* undefined is left out, NaN is written as null
_json_pp(st, map) ==
    LET c == st.connections
        known == [admin |-> c.admin, tcp |-> c.tcp, udp |-> c.udp, socket |-> c.socket,
                  total |-> c.total, last |-> c.last, idle |-> c.idle]
    IN  [stats   |-> [connections |-> IF c.unix = "undefined"
                                      THEN known
                                      ELSE known @@ [unix |-> "null"],
                      start_time  |-> st.start_time,
                      uptime      |-> st.uptime],
         servers |-> map]

\* the first statements of ___admin_command: uptime and idle time
recompute(st, t) ==
    LET up == t - st.start_time
    IN  [st EXCEPT !.uptime = up,
                   !.connections.idle = IF st.connections.last # 0
                                        THEN t - st.connections.last
                                        ELSE up]

returned(text) == [thrown |-> FALSE, text |-> text]
thrown(e)      == [thrown |-> TRUE, text |-> <<e>>]

\* lib/piped.js: the switch of ___admin_command; "dump" has no return and
\* falls through to default.  st is Stats after recompute.
___admin_command(cmd, st, srv, pr, t) ==
    CASE cmd = <<"stats">> ->
           [thrown |-> FALSE, text |-> <<"json">>,
            body |-> _json_pp(st, [n \in Names |-> stats(pr, srv[n], st, t)])]
      [] cmd = <<"ping">> -> returned(<<"pong">>)
      [] cmd = <<"logrotate">> -> returned(<<"TODO">>)
      [] OTHER -> returned(<<"ERROR", "\n">>)

\* lib/admin_server.js: the switch of ___admin_command.  C._json_pp( config )
\* is JSON.stringify, which throws a TypeError when the configuration object
\* cannot be serialised (it holds a circular reference).
admin_switch(cmd, serialisable) ==
    CASE cmd = <<"config">> ->
           IF serialisable
           THEN [thrown |-> FALSE, text |-> <<"json">>, body |-> [config |-> "config"]]
           ELSE thrown("TypeError")
      [] cmd = <<"ping">> -> returned(<<"pong">>)
      [] cmd = <<"__dump">> -> returned(<<"OK">>)
      [] OTHER -> returned(<<"ADMIN ERROR: UNKNOWN COMMAND ">> \o cmd \o <<"\n">>)

\* a dispatcher that lets whatever the switch throws escape
AdminServer___admin_command_NoCatch(cmd, serialisable) ==
    admin_switch(cmd, serialisable)

\* lib/admin_server.js: ___admin_command, the switch inside try ... catch
AdminServer___admin_command(cmd, serialisable) ==
    LET r == admin_switch(cmd, serialisable)
    IN  IF r.thrown
        THEN returned(<<"ADMIN ERROR on '">> \o cmd \o <<"': ">> \o r.text)
        ELSE r

\* a client connects to the admin server
AdminConnect(server) ==
    /\ ~crashed
    /\ ~admin.open
    /\ admin' = [open |-> TRUE, server |-> server, cmds |-> <<>>]
    /\ io' = <<>>
    /\ UNCHANGED <<Config, State, prototype, sockets, reachable, conns, Stats, now, crashed>>

\* the 'data' handler of the admin connection: trim the line, dispatch,
\* write what the dispatcher returns.  An exception the dispatcher lets out
\* escapes the handler.
AdminData(line, serialisable) ==
    /\ ~crashed
    /\ admin.open
    /\ Len(admin.cmds) < MaxCmds
    /\ admin.server = "piped" => Stats.connections.admin < MaxAdmin /\ serialisable
    /\ LET cmd   == trim(line)
           count == IF admin.server = "piped"
                    THEN [Stats EXCEPT !.connections.admin = @ + 1]
                    ELSE Stats
           st    == recompute(count, now)
           r     == IF admin.server = "piped"
                    THEN ___admin_command(cmd, st, State.servers, prototype, now)
                    ELSE AdminServer___admin_command(cmd, serialisable)
       IN  /\ Stats' = st
           /\ admin' = [admin EXCEPT !.cmds = Append(@, cmd)]
           /\ IF r.thrown
              THEN crashed' = TRUE /\ io' = <<>>
              ELSE /\ crashed' = crashed
                   /\ io' = <<[call |-> "reply"] @@ [f \in DOMAIN r \ {"thrown"} |-> r[f]]>>
    /\ UNCHANGED <<Config, State, prototype, sockets, reachable, conns, now>>

\* the admin client closes its connection
AdminClose ==
    /\ ~crashed
    /\ admin.open
    /\ admin' = NoAdmin
    /\ io' = <<>>
    /\ UNCHANGED <<Config, State, prototype, sockets, reachable, conns, Stats, now, crashed>>

AdminNext ==
    \/ \E server \in AdminServers : AdminConnect(server)
    \/ \E line \in Lines : \E serialisable \in BOOLEAN : AdminData(line, serialisable)
    \/ AdminClose
    \/ AdvanceClock
    \/ \E h \in Sockets : OnConnect(h)
    \/ \E type \in {"tcp", "unix"} : StreamConnection(type)
    \/ UDPMessage

AdminSpec == Init /\ [][AdminNext]_vars

\* ===================================================================== claims

\* what a reader of State.servers sees of server n
Remote(n)      == State.servers[n]
Available(n)   == is_available(prototype, Remote(n))
Destroyed(n)   == destroyed(sockets, Remote(n))
Usable(n)      == Available(n) /\ ~Destroyed(n)
Select         == _available_server(State.servers, prototype, sockets, now)

\* the first server in configured order that is marked available and whose
\* socket is not destroyed, NoServer when there is none
FirstUsable ==
    IF \E n \in Names : Usable(n)
    THEN CHOOSE n \in Names : Usable(n) /\ \A m \in Names : Usable(m) => n <= m
    ELSE NoServer

\* C1: in every reachable state, a call of _available_server returns the
\* first server in configured order that is marked available and whose socket
\* is not destroyed at the time of the call, and false exactly when there is
\* no such server.
C1_SelectReturnsFirstUsable == Select.remote = FirstUsable

\* C2: when the scan meets a server b that is marked available but whose
\* socket is destroyed, the same call marks b unavailable and goes on: if c is
\* the next server after b that is marked available with a live socket (and
\* nothing before b is marked available), the call returns c.
C2_DestroyedDemotedThenNextReturned ==
    \A b, c \in Names :
        ( /\ b < c
          /\ \A a \in Names : a < b => ~Available(a)
          /\ Available(b) /\ Destroyed(b)
          /\ \A m \in Names : (b < m /\ m < c) => ~Usable(m)
          /\ Usable(c) )
        => /\ ~is_available(Select.prototype, Remote(b))
           /\ Select.remote = c

\* an inbound unit of work arrives: a stream connection or a datagram
InboundUnit == (\E type \in {"tcp", "unix"} : StreamConnection(type)) \/ UDPMessage

\* C3: when no server is usable, an inbound stream connection or datagram is
\* dropped without being queued and the relay keeps running.
C3_NoBackendIsNotFatal ==
    [][(InboundUnit /\ Select.remote = NoServer) => (~crashed' /\ conns' = conns)]_vars

\* C4: a firing of the reconnect interval gives every server that is marked
\* unavailable a new remote object with a fresh socket under the same name,
\* and leaves every server that is marked available, its socket and its
\* health fields as they were; when the 'connect' event of a server's socket
\* arrives, the server is marked available through mark_available.
C4_TickReconnectsUnavailable ==
    [][ /\ Reconnect =>
             \A n \in Names :
                IF Available(n) = FALSE
                THEN /\ State'.servers[n].name = n
                     /\ State'.servers[n].connection # Remote(n).connection
                     /\ sockets[State'.servers[n].connection].state = "unused"
                     /\ sockets'[State'.servers[n].connection].state \in {"connecting", "dgram"}
                     /\ sockets'[State'.servers[n].connection].peer = n
                ELSE /\ State'.servers[n] = Remote(n)
                     /\ sockets'[Remote(n).connection] = sockets[Remote(n).connection]
                     /\ prototype'[KindOf(Remote(n))] = prototype[KindOf(Remote(n))]
        /\ \A h \in Sockets : OnConnect(h) =>
             \A n \in Names : Remote(n).connection = h =>
                /\ is_available(prototype', State'.servers[n])
                /\ state_changes(prototype', State'.servers[n]) = state_changes(prototype, Remote(n)) + 1
      ]_vars

\* a server whose current socket was made by the reconnect interval, has
\* completed its connect, and is marked available
C4_Witness ==
    \E n \in Names :
        /\ Remote(n).connection > NumServers
        /\ sockets[Remote(n).connection].state = "connected"
        /\ Available(n)

\* the connect attempts of server n that have neither succeeded nor failed
InFlight(n) == {h \in Sockets : sockets[h].state = "connecting" /\ sockets[h].peer = n}

\* C5: at every moment each server has at most one connect attempt in flight.
C5_AtMostOneConnectInFlight == \A n \in Names : Cardinality(InFlight(n)) <= 1

\* C7: a stream server is not marked available while its own socket is still
\* connecting, and it goes from unavailable to available only in the step in
\* which its own socket completes its connect.
C7_AvailableOnlyByOwnConnect ==
    [][\A n \in Names : State'.servers[n].is_stream =>
          /\ is_available(prototype', State'.servers[n])
                => sockets'[State'.servers[n].connection].state # "connecting"
          /\ (~Available(n) /\ is_available(prototype', State'.servers[n]))
                => /\ sockets[Remote(n).connection].state = "connecting"
                   /\ sockets'[Remote(n).connection].state = "connected"
      ]_vars

C9_BridgeByBackendKind ==
    [][ /\ \A type \in {"tcp", "unix"} :
             (StreamConnection(type) /\ Select.remote # NoServer) =>
                /\ conns'[FreeConn].remote = Select.remote
                /\ conns'[FreeConn].mode =
                      IF Config.servers[Select.remote] = "stream" THEN "pipe" ELSE "manual"
        /\ \A c \in ConnIds : StreamData(c) =>
             IF Config.servers[conns[c].remote] = "stream"
             THEN /\ Len(io') <= 1
                  /\ \A i \in 1..Len(io') :
                        io'[i].call = "write" /\ io'[i].socket = conns[c].socket
             ELSE /\ Len(io') = 1
                  /\ io'[1].call = "send"
                  /\ io'[1].on = conns[c].remote
                  /\ io'[1].socket = Remote(conns[c].remote).connection
      ]_vars

\* a connection bridged to a UDP server has delivered its second chunk by send
C9_Witness ==
    \E c \in ConnIds :
        /\ conns[c].open /\ conns[c].mode = "manual" /\ conns[c].chunks = 2
        /\ Len(io) = 1 /\ io[1].call = "send"

\* C10: every datagram received by the UDP listener is forwarded as exactly
\* one send on the server that _available_server returns at that moment.
C10_DatagramForwardedOnce ==
    [][UDPMessage =>
          /\ ~crashed'
          /\ Select.remote # NoServer =>
                \E data \in Chunks : io' = udp_send(Remote(Select.remote), data, Config.encoding)
      ]_vars

\* the counters and the socket pool of the model have room left
WithinBounds ==
    /\ prototype["stream"].state_changes < MaxChanges
    /\ Cardinality(Unused(sockets)) >= NumServers

\* C6: under fair scheduling of the interval timer and of connect
\* completions, a server that is marked unavailable and whose endpoint is
\* reachable from then on is eventually marked available (in behaviours that
\* stay within the bounds of the model).
C6_UnavailableEventuallyAvailable ==
    \A n \in Names :
        []((~Available(n) /\ []reachable[n] /\ []WithinBounds) => <>Available(n))

\* the same with the process staying alive: what is left of C6 once the
\* fatal handlers of C3 and C10 are set aside
C6_WhileRunning ==
    \A n \in Names :
        []((~Available(n) /\ []reachable[n] /\ []WithinBounds /\ []~crashed) => <>Available(n))

C12_PipedBytesAsReceived ==
    [][ \A c \in ConnIds : \A data \in Chunks :
          (DataEvent(c, data) /\ conns[c].mode = "pipe") =>
             io' = <<[call |-> "write", on |-> sockets[conns[c].socket].peer,
                      socket |-> conns[c].socket, data |-> data]>>
      ]_vars

\* C12: as long as the socket an inbound connection is piped to has not been
\* destroyed, every chunk received on the connection is written to that
\* socket in the step that receives it, once and unchanged; so the socket gets
\* the chunks in the order of receipt with nothing added and nothing dropped.
C12_PipedBytesWhileWritable ==
    [][ \A c \in ConnIds : \A data \in Chunks :
          (/\ DataEvent(c, data)
           /\ conns[c].mode = "pipe"
           /\ sockets[conns[c].socket].state # "destroyed") =>
             io' = <<[call |-> "write", on |-> sockets[conns[c].socket].peer,
                      socket |-> conns[c].socket, data |-> data]>>
      ]_vars

\* the second chunk of a piped connection has just been written
C12_Witness ==
    \E c \in ConnIds :
        /\ conns[c].open /\ conns[c].mode = "pipe" /\ conns[c].chunks = 2
        /\ Len(io) = 1 /\ io[1].call = "write" /\ io[1].socket = conns[c].socket
        /\ io[1].data = <<"y", "\n">>

\* the commands each dispatcher has a case for
Recognised(server) ==
    IF server = "piped"
    THEN {<<"stats">>, <<"ping">>, <<"logrotate">>, <<"dump">>}
    ELSE {<<"config">>, <<"ping">>, <<"__dump">>}

\* the reply the last handler wrote on the admin connection, if any
Replied == Len(io) = 1 /\ io[1].call = "reply"

\* text contains the command cmd
Mentions(text, cmd) ==
    \E i \in 1..Len(text) : i + Len(cmd) - 1 <= Len(text) /\ SubSeq(text, i, i + Len(cmd) - 1) = cmd

\* C13: a command no case of the dispatcher matches is answered with one
\* reply that contains the command, the admin connection stays open and the
\* process alive, and ping is answered with pong whatever came before it on
\* the connection.
C13_UnknownCommandNamed ==
    [][ \A line \in Lines : \A serialisable \in BOOLEAN :
          AdminData(line, serialisable) =>
             /\ trim(line) \notin Recognised(admin.server) =>
                   /\ Len(io') = 1 /\ io'[1].call = "reply"
                   /\ Mentions(io'[1].text, trim(line))
                   /\ admin'.open /\ ~crashed'
             /\ trim(line) = <<"ping">> =>
                   io' = <<[call |-> "reply", text |-> <<"pong">>]>>
      ]_vars

\* whether handling cmd raises an exception inside the dispatcher
Raises(server, cmd, serialisable) ==
    server = "lib" /\ admin_switch(cmd, serialisable).thrown

state_changed(pr, remote) == pr[KindOf(remote)].state_changed

\* C15: in every step, for every server: if the is_available flag a reader
\* sees has changed, the counter of state changes has gone up by exactly one
\* and state_changed is the time of the step; the counter never moves by
\* more than one, and counter and timestamp never move without each other.
C15_FlagCounterStampTogether ==
    [][ \A n \in Names :
          LET old == Remote(n)
              new == State'.servers[n]
              d   == state_changes(prototype', new) - state_changes(prototype, old)
          IN  /\ d \in {0, 1}
              /\ is_available(prototype', new) # is_available(prototype, old) => d = 1
              /\ d = 1 => state_changed(prototype', new) = now
              /\ d = 0 => /\ state_changed(prototype', new) = state_changed(prototype, old)
                          /\ is_available(prototype', new) = is_available(prototype, old)
      ]_vars

\* a server was marked available after the clock had advanced, and was
\* marked unavailable before that
C15_Witness ==
    \E n \in Names :
        /\ Available(n)
        /\ state_changed(prototype, Remote(n)) = 2
        /\ state_changes(prototype, Remote(n)) = 2
        /\ \E h \in Sockets : sockets[h].state = "destroyed"

\* C16: every 'connect' and every 'error' of a socket raises the counter of
\* state changes by one, whether or not the flag was already what the event
\* sets it to; mark_available applied twice in a row adds two, and so does
\* mark_unavailable.
C16_MarksNotDeduplicated ==
    [][ /\ \A h \in Sockets :
             (OnConnect(h) \/ OnError(h)) =>
                prototype'["stream"].state_changes = prototype["stream"].state_changes + 1
        /\ \A k \in Kinds :
             /\ mark_available(mark_available(prototype, k, now), k, now)[k].state_changes
                   = prototype[k].state_changes + 2
             /\ mark_unavailable(mark_unavailable(prototype, k, now), k, now)[k].state_changes
                   = prototype[k].state_changes + 2
      ]_vars

\* two sockets have connected one after the other and nothing has failed in
\* between: mark_available ran twice in a row and the counter stands at two
C16_Witness ==
    /\ prototype["stream"].is_available
    /\ prototype["stream"].state_changes = 2
    /\ Cardinality({h \in Sockets : sockets[h].state = "connected"}) = 2
    /\ \A h \in Sockets : sockets[h].state # "destroyed"

\* C17: a firing of the reconnect interval that finds two servers
\* unavailable gives each of them a fresh socket that is connecting; every
\* pending connect to a reachable endpoint can complete next, whatever the
\* other attempts are doing; and the server whose socket connects is
\* available from that step on.
C17_BothReconnectIndependently ==
    [][ /\ (Reconnect /\ Cardinality(Unavailable) = 2) =>
             \A n \in Unavailable :
                LET h == State'.servers[n].connection
                IN  /\ h # Remote(n).connection
                    /\ sockets[h].state = "unused"
                    /\ sockets'[h] = [state |-> "connecting", peer |-> n]
        /\ \A h \in Sockets :
             (/\ ~crashed
              /\ sockets[h].state = "connecting"
              /\ reachable[sockets[h].peer]
              /\ prototype["stream"].state_changes < MaxChanges) => ENABLED OnConnect(h)
        /\ \A h \in Sockets : OnConnect(h) =>
             \A n \in Names : Remote(n).connection = h => is_available(prototype', State'.servers[n])
      ]_vars

\* both servers were given a socket by one firing of the interval; the
\* second server's has connected and made it available while the first
\* server's is still pending
C17_Witness ==
    /\ Remote(1).connection = 3 /\ Remote(2).connection = 4
    /\ sockets[3].state = "connecting"
    /\ sockets[4].state = "connected"
    /\ Available(2)

\* socket h is connected and an open inbound connection that was bridged to
\* it has written to it
WrittenTo(h) ==
    /\ sockets[h].state = "connected"
    /\ \E c \in ConnIds : conns[c].open /\ conns[c].socket = h /\ conns[c].chunks > 0

\* C18: when the socket that an inbound connection is writing to fails, the
\* is_available flag and the counter of state changes of every server stay
\* as they were; the flag goes down only in a later selection.
C18_WriteFailureKeepsHealth ==
    [][ \A h \in Sockets :
          (OnError(h) /\ WrittenTo(h)) =>
             \A n \in Names :
                /\ is_available(prototype', State'.servers[n]) = Available(n)
                /\ state_changes(prototype', State'.servers[n])
                      = state_changes(prototype, Remote(n))
      ]_vars

\* C19: every chunk of an inbound connection that is handed to a server
\* leaves that server's last_sent at the time of the forward.
C19_ForwardStampsLastSent ==
    [][ \A c \in ConnIds : \A data \in Chunks :
          (DataEvent(c, data) /\ io' # <<>>) =>
             last_sent(prototype', State'.servers[conns[c].remote]) = now
      ]_vars

\* C20: the total of Stats.connections is the sum of the counters of the
\* three data listeners (tcp, udp and the unix socket).
C20_TotalIsSumOfTypes ==
    Stats.connections.total
        = Stats.connections.tcp + Stats.connections.udp + Stats.connections.socket

\* the line terminator that a text payload may end in
Terminator == "\n"

\* C21: a chunk handed to a UDP server by remote.send goes out as one
\* datagram; with the ascii encoding a chunk that ends in a line terminator
\* goes out without that one terminator, and every other chunk, and every
\* chunk under another encoding, goes out byte for byte.
C21_OnlyTrailingTerminatorTrimmed ==
    [][ \A c \in ConnIds : \A data \in Chunks :
          (DataEvent(c, data) /\ conns[c].mode = "manual") =>
             /\ Len(io') = 1 /\ io'[1].call = "send"
             /\ io'[1].bytes =
                   IF Config.encoding = "ascii" /\ data[Len(data)] = Terminator
                   THEN SubSeq(data, 1, Len(data) - 1)
                   ELSE data
      ]_vars

\* C22: a 'connect' or 'error' event of a socket leaves the health fields
\* that every server other than the socket's own shows (is_available,
\* state_changed, state_changes) as they were.
C22_HealthIsPerServer ==
    [][ \A h \in Sockets :
          (OnConnect(h) \/ OnError(h)) =>
             \A n \in Names \ {sockets[h].peer} :
                /\ is_available(prototype', State'.servers[n]) = Available(n)
                /\ state_changed(prototype', State'.servers[n])
                      = state_changed(prototype, Remote(n))
                /\ state_changes(prototype', State'.servers[n])
                      = state_changes(prototype, Remote(n))
      ]_vars

\* socket h was opened for a server that has been given another socket since
Replaced(h) ==
    /\ sockets[h].state # "unused"
    /\ \A n \in Names : Remote(n).connection # h

\* C23: a stream server that reads as available never has a socket that is
\* still connecting, and a 'connect' or 'error' event of a socket that has
\* been replaced changes the availability of no server.
C23_LateEventsIgnored ==
    [][ /\ \A n \in Names :
             (Remote(n).is_stream /\ Available(n)) =>
                sockets[Remote(n).connection].state # "connecting"
        /\ \A h \in Sockets :
             ((OnConnect(h) \/ OnError(h)) /\ Replaced(h)) =>
                \A n \in Names : is_available(prototype', State'.servers[n]) = Available(n)
      ]_vars

\* C24: State.servers always holds one remote per configured server, each
\* under its configured name, of its configured kind and at its configured
\* position, which is the order _available_server scans in.
C24_ServersKeepNamesAndOrder ==
    /\ DOMAIN State.servers = Names
    /\ \A n \in Names :
          /\ Remote(n).name = n
          /\ Remote(n).is_stream = (Config.servers[n] = "stream")

\* the reconnect job has replaced the remote of every server
C24_Witness ==
    \A n \in Names : Remote(n).connection > NumServers /\ Remote(n).name = n

====
